---- MODULE Spec2Model ----
(***************************************************************************)
(* Model of scripts/check-db.js: the database pre-flight pipeline, and of   *)
(* request() of src/lib/fetch.ts (its own section and specification).      *)
(*                                                                         *)
(* The script is one Node process.  Its module body runs top to bottom:    *)
(* the SKIP_DB_CHECK guard, the parse of DATABASE_URL, getSslOptions and   *)
(* the construction of the Prisma client; then an async runner awaits the  *)
(* four checks in order and exits with code 1 after the first that throws. *)
(* JavaScript strings are TLA+ strings; a string whose characters matter   *)
(* is a tuple of one-character strings.                                    *)
(***************************************************************************)
EXTENDS Integers, Sequences, FiniteSets, TLC

VARIABLES env, pc, url, sslOptions, idx, err, exitCode, uncaught,
          output, trace, failed, connected, dbVersion, migrateCalls,
          res, nodeEnv, fetchPc, settled, consoleErrors

\* The state of a run of scripts/check-db.js.
dbVars == <<env, pc, url, sslOptions, idx, err, exitCode, uncaught,
            output, trace, failed, connected, dbVersion, migrateCalls>>

\* The state of a call of request() of src/lib/fetch.ts.
fetchVars == <<res, nodeEnv, fetchPc, settled, consoleErrors>>

vars == <<dbVars, fetchVars>>

(***************************************************************************)
(* Values.                                                                 *)
(***************************************************************************)

\* process.env.X of a variable that is not in the environment.
Undefined == "<undefined>"

\* URLSearchParams.get of a name that is not in the query.
Null == "<null>"

\* No exception.
NoError == "<none>"

\* The exit code of a process that has not exited.
Running == -1

\* Greatest number of name=value pairs in the query of a DATABASE_URL.
MaxParams == 2

\* JavaScript truthiness of a string-or-undefined value.
Truthy(v) == v # Undefined /\ v # Null /\ v # ""

(***************************************************************************)
(* The text of DATABASE_URL.  A text is its scheme ("postgresql:" or none),*)
(* what follows the scheme up to the query, and the query's pairs in       *)
(* order.  The empty string has none of the three.                         *)
(***************************************************************************)

SslValues == {"1", "true", "0"}

SslmodeValues == {"", "disable", "require", "prefer", "verify-ca", "verify-full"}

QueryPairs == {<<"ssl", v>> : v \in SslValues} \cup {<<"sslmode", v>> : v \in SslmodeValues}

SeqsUpTo(S, n) == UNION {[1..k -> S] : k \in 0..n}

UrlText(scheme, body, query) ==
  [defined |-> TRUE, scheme |-> scheme, body |-> body, query |-> query]

NoUrlText == [defined |-> FALSE, scheme |-> "", body |-> "", query |-> <<>>]

EmptyText == UrlText("", "", <<>>)

WellFormedTexts(n) == {UrlText("postgresql:", "//db.example/umami", q) : q \in SeqsUpTo(QueryPairs, n)}

\* Texts without a scheme: new URL rejects them.
MalformedTexts == {UrlText("", "db.example/umami", q) : q \in SeqsUpTo({<<"sslmode", "require">>}, 1)}

\* !process.env.DATABASE_URL
UrlTextTruthy(t) == t.defined /\ t # EmptyText

\* Mutant: only an absent text is refused.
\* Mutant: the constructor accepts any text.
ParseThrowsNever(t) == FALSE

ParseThrowsOnlyUndefined(t) == ~t.defined

\* new URL(text): throws a TypeError unless the text has a scheme.  An
\* undefined argument is converted to the string "undefined", which has none.
ParseThrows(t) == ~t.defined \/ t.scheme = ""

ParseURL(t) == [searchParams |-> t.query]

\* URLSearchParams.get: the value of the first pair with the name, or null.
RECURSIVE SearchParamsGet(_, _)
SearchParamsGet(params, name) ==
  IF params = <<>> THEN Null
  ELSE IF Head(params)[1] = name THEN Head(params)[2]
  ELSE SearchParamsGet(Tail(params), name)

(***************************************************************************)
(* getSslOptions.                                                          *)
(***************************************************************************)

\* Mutant: the comparison with 'true' of the ssl parameter is lost.
SslEnabledNoSslTrue(ssl, sslmode, envSsl) ==
  \/ envSsl = "1"
  \/ envSsl = "true"
  \/ ssl = "1"
  \/ (Truthy(sslmode) /\ sslmode # "disable")

SslEnabled(ssl, sslmode, envSsl) ==
  \/ envSsl = "1"
  \/ envSsl = "true"
  \/ ssl = "1"
  \/ ssl = "true"
  \/ (Truthy(sslmode) /\ sslmode # "disable")

\* Mutant: the negation of the override test is lost, so any value but "0"
\* and "false" switches verification off.
RejectUnauthorizedInverted(sslmode, envRejectUnauthorized) ==
  IF envRejectUnauthorized # Undefined
  THEN envRejectUnauthorized = "0" \/ envRejectUnauthorized = "false"
  ELSE IF sslmode = "require" \/ sslmode = "prefer" THEN FALSE ELSE TRUE

\* Mutant: sslmode=prefer is verified like any other mode.
RejectUnauthorizedNoPrefer(sslmode, envRejectUnauthorized) ==
  IF envRejectUnauthorized # Undefined
  THEN ~(envRejectUnauthorized = "0" \/ envRejectUnauthorized = "false")
  ELSE IF sslmode = "require" THEN FALSE ELSE TRUE

\* Mutant: the override is tested for truthiness, so an empty value is unset.
RejectUnauthorizedTruthyOverride(sslmode, envRejectUnauthorized) ==
  IF Truthy(envRejectUnauthorized)
  THEN ~(envRejectUnauthorized = "0" \/ envRejectUnauthorized = "false")
  ELSE IF sslmode = "require" \/ sslmode = "prefer" THEN FALSE ELSE TRUE

RejectUnauthorized(sslmode, envRejectUnauthorized) ==
  IF envRejectUnauthorized # Undefined
  THEN ~(envRejectUnauthorized = "0" \/ envRejectUnauthorized = "false")
  ELSE IF sslmode = "require" \/ sslmode = "prefer" THEN FALSE ELSE TRUE

\* The characters of the DATABASE_SSL_CA_BASE64 values of the model.
B64Texts == {"UEVN", "UE VN", "UEV=", " ", "!!", "UEVN!"}

B64Chars(s) ==
  CASE s = "UEVN"  -> <<"U", "E", "V", "N">>
    [] s = "UE VN" -> <<"U", "E", " ", "V", "N">>
    [] s = "UEV="  -> <<"U", "E", "V", "=">>
    [] s = " "     -> <<" ">>
    [] s = "!!"    -> <<"!", "!">>
    [] s = "UEVN!" -> <<"U", "E", "V", "N", "!">>
    [] OTHER       -> <<>>

\* envCaBase64.replace(/\s+/g, '')
RECURSIVE StripWhitespace(_)
StripWhitespace(cs) ==
  IF cs = <<>> THEN <<>>
  ELSE IF Head(cs) = " " THEN StripWhitespace(Tail(cs))
  ELSE <<Head(cs)>> \o StripWhitespace(Tail(cs))

\* The six-bit value of a character of the base64 alphabet; 64 for any other.
Unbase64(c) ==
  CASE c = "U" -> 20 [] c = "E" -> 4 [] c = "V" -> 21 [] c = "N" -> 13 [] OTHER -> 64

\* Buffer.from(s, 'base64') reads the legal characters, skips the others and
\* stops at '='; it never throws.
RECURSIVE Sextets(_)
Sextets(cs) ==
  IF cs = <<>> THEN <<>>
  ELSE IF Unbase64(Head(cs)) < 64 THEN <<Unbase64(Head(cs))>> \o Sextets(Tail(cs))
  ELSE IF Head(cs) = "=" THEN <<>>
  ELSE Sextets(Tail(cs))

RECURSIVE BytesOf(_)
BytesOf(sx) ==
  IF Len(sx) < 2 THEN <<>>
  ELSE LET b1 == (sx[1] * 4 + sx[2] \div 16) % 256 IN
    IF Len(sx) = 2 THEN <<b1>>
    ELSE LET b2 == ((sx[2] % 16) * 16 + sx[3] \div 4) % 256 IN
      IF Len(sx) = 3 THEN <<b1, b2>>
      ELSE <<b1, b2, ((sx[3] % 4) * 64 + sx[4]) % 256>> \o BytesOf(SubSeq(sx, 5, Len(sx)))

CharOfByte(b) == CASE b = 80 -> "P" [] b = 69 -> "E" [] b = 77 -> "M" [] OTHER -> "?"

\* buffer.toString('utf8')
RECURSIVE Utf8String(_)
Utf8String(bs) == IF bs = <<>> THEN "" ELSE CharOfByte(Head(bs)) \o Utf8String(Tail(bs))

Base64Decode(s) == Utf8String(BytesOf(Sextets(StripWhitespace(B64Chars(s)))))

\* Mutant: the base64 override is preferred to the raw PEM override.
CaOfBase64First(envCa, envCaBase64) ==
  IF Truthy(envCaBase64) THEN Base64Decode(envCaBase64) ELSE envCa

\* let ca = envCa; if (!ca && envCaBase64) ca = decoded
CaOf(envCa, envCaBase64) ==
  IF ~Truthy(envCa) /\ Truthy(envCaBase64) THEN Base64Decode(envCaBase64) ELSE envCa

\* The value returned for "no TLS".
UndefinedOptions == [defined |-> FALSE]

\* Mutant: with the debug flag on, the options are returned before the CA is
\* added to them.
getSslOptionsDebugDropsCa(connectionUrl, e) ==
  LET ssl == SearchParamsGet(connectionUrl.searchParams, "ssl")
      sslmode == SearchParamsGet(connectionUrl.searchParams, "sslmode")
      enabled == SslEnabled(ssl, sslmode, e.DATABASE_SSL)
      rejectUnauthorized == RejectUnauthorized(sslmode, e.DATABASE_SSL_REJECT_UNAUTHORIZED)
      ca == CaOf(e.DATABASE_SSL_CA, e.DATABASE_SSL_CA_BASE64)
  IN IF ~enabled THEN UndefinedOptions
     ELSE IF Truthy(ca) /\ ~Truthy(e.DATABASE_SSL_DEBUG)
     THEN [rejectUnauthorized |-> rejectUnauthorized, ca |-> ca]
     ELSE [rejectUnauthorized |-> rejectUnauthorized]

getSslOptions(connectionUrl, e) ==
  LET ssl == SearchParamsGet(connectionUrl.searchParams, "ssl")
      sslmode == SearchParamsGet(connectionUrl.searchParams, "sslmode")
      enabled == SslEnabled(ssl, sslmode, e.DATABASE_SSL)
      rejectUnauthorized == RejectUnauthorized(sslmode, e.DATABASE_SSL_REJECT_UNAUTHORIZED)
      ca == CaOf(e.DATABASE_SSL_CA, e.DATABASE_SSL_CA_BASE64)
  IN IF ~enabled THEN UndefinedOptions
     ELSE IF Truthy(ca) THEN [rejectUnauthorized |-> rejectUnauthorized, ca |-> ca]
     ELSE [rejectUnauthorized |-> rejectUnauthorized]

\* The line getSslOptions logs when DATABASE_SSL_DEBUG is truthy and TLS is on.
SslDebugLines(connectionUrl, e) ==
  LET opts == getSslOptions(connectionUrl, e) IN
  IF opts # UndefinedOptions /\ Truthy(e.DATABASE_SSL_DEBUG)
  THEN <<[kind |-> "log", msg |-> "DB SSL debug:"]>>
  ELSE <<>>

(***************************************************************************)
(* semver.coerce, semver.valid and semver.lt on the server's version       *)
(* string.  A version is <<major, minor, patch>>; the null that            *)
(* semver.coerce returns for a string without digits is NullVersion.       *)
(***************************************************************************)

NullVersion == <<>>

MIN_VERSION == <<9, 4, 0>>

IsDigit(c) == c \in {"0", "1", "2", "3", "4", "5", "6", "7", "8", "9"}

DigitValue(c) ==
  CASE c = "0" -> 0 [] c = "1" -> 1 [] c = "2" -> 2 [] c = "3" -> 3 [] c = "4" -> 4
    [] c = "5" -> 5 [] c = "6" -> 6 [] c = "7" -> 7 [] c = "8" -> 8 [] c = "9" -> 9

\* The last index of the run of digits that starts at i.
RECURSIVE RunEnd(_, _)
RunEnd(cs, i) == IF i < Len(cs) /\ IsDigit(cs[i + 1]) THEN RunEnd(cs, i + 1) ELSE i

RECURSIVE NumberOf(_, _, _)
NumberOf(cs, i, j) == IF j < i THEN 0 ELSE NumberOf(cs, i, j - 1) * 10 + DigitValue(cs[j])

\* Whether a '.' and a digit follow index j.
DotDigitAfter(cs, j) == j + 2 <= Len(cs) /\ cs[j + 1] = "." /\ IsDigit(cs[j + 2])

\* semver.valid(semver.coerce(s)): the first run of digits is the major
\* version, and up to two '.'-separated runs after it are minor and patch.
SemverCoerce(cs) ==
  IF \A i \in 1..Len(cs) : ~IsDigit(cs[i]) THEN NullVersion
  ELSE LET i == CHOOSE k \in 1..Len(cs) : IsDigit(cs[k]) /\ \A m \in 1..(k - 1) : ~IsDigit(cs[m])
           j == RunEnd(cs, i)
           major == NumberOf(cs, i, j)
       IN IF ~DotDigitAfter(cs, j) THEN <<major, 0, 0>>
          ELSE LET k == RunEnd(cs, j + 2)
                   minor == NumberOf(cs, j + 2, k)
               IN IF ~DotDigitAfter(cs, k) THEN <<major, minor, 0>>
                  ELSE <<major, minor, NumberOf(cs, k + 2, RunEnd(cs, k + 2))>>

\* semver.lt(a, b), both versions.
SemverLt(a, b) ==
  \/ a[1] < b[1]
  \/ a[1] = b[1] /\ a[2] < b[2]
  \/ a[1] = b[1] /\ a[2] = b[2] /\ a[3] < b[3]

\* The strings "select version()" may return.
VersionStrings ==
  { <<"9", ".", "3", ".", "1">>,
    <<"9", ".", "4", ".", "0">>,
    <<"9", ".", "5", ".", "0">>,
    <<"1", "0", ".", "0", ".", "0">>,
    <<"P", "G", " ", "9", ".", "3", ".", "1", " ", "o", "n">>,
    <<"P", "G", " ", "1", "4", ".", "2">>,
    <<"d", "e", "v">> }

\* No query has returned yet.
NoVersionString == <<>>

(***************************************************************************)
(* src/lib/fetch.ts: request().  A body is the sequence of its characters. *)
(* A JavaScript value is a record with its type t and, but for undefined   *)
(* and null, its value v; an object's v maps its property names to values. *)
(***************************************************************************)

JsUndefined == [t |-> "undefined"]

JsNull == [t |-> "null"]

JsBoolean(b) == [t |-> "boolean", v |-> b]

JsNumber(n) == [t |-> "number", v |-> n]

JsString(s) == [t |-> "string", v |-> s]

JsArray(items) == [t |-> "array", v |-> items]

JsObject(props) == [t |-> "object", v |-> props]

\* The string of a sequence of characters.
RECURSIVE TextOf(_)
TextOf(cs) == IF cs = <<>> THEN "" ELSE Head(cs) \o TextOf(Tail(cs))

WhiteSpace == {" ", "\n", "\t"}

\* raw.trimStart(); JSON.parse skips the same characters between tokens.
RECURSIVE TrimStart(_)
TrimStart(cs) ==
  IF cs # <<>> /\ Head(cs) \in WhiteSpace THEN TrimStart(Tail(cs)) ELSE cs

StartsWith(cs, prefix) ==
  Len(cs) >= Len(prefix) /\ SubSeq(cs, 1, Len(prefix)) = prefix

Drop(cs, n) == SubSeq(cs, n + 1, Len(cs))

\* JSON.parse on the texts of the model: objects, arrays, strings without
\* escapes, non-negative integers, true, false and null.  A step of the
\* parser yields the value read and the characters left, or fails.
ParseFail == [ok |-> FALSE]

Parsed(value, rest) == [ok |-> TRUE, v |-> value, rest |-> rest]

\* The characters after an opening quote, up to the closing one.
RECURSIVE ParseString(_, _)
ParseString(cs, acc) ==
  IF cs = <<>> THEN ParseFail
  ELSE IF Head(cs) = "\"" THEN Parsed(JsString(acc), Tail(cs))
  ELSE IF Head(cs) \in {"\\", "\n", "\t"} THEN ParseFail
  ELSE ParseString(Tail(cs), acc \o Head(cs))

\* A digit run; a number that starts with 0 ends there.
ParseNumber(cs) ==
  IF Head(cs) = "0" THEN Parsed(JsNumber(0), Tail(cs))
  ELSE LET j == RunEnd(cs, 1) IN Parsed(JsNumber(NumberOf(cs, 1, j)), Drop(cs, j))

RECURSIVE ParseValue(_), ParseMembers(_, _), ParseItems(_, _)

ParseValue(text) ==
  LET cs == TrimStart(text) IN
  IF cs = <<>> THEN ParseFail
  ELSE IF Head(cs) = "{"
  THEN LET s == TrimStart(Tail(cs)) IN
       IF s # <<>> /\ Head(s) = "}" THEN Parsed(JsObject(<<>>), Tail(s))
       ELSE ParseMembers(s, <<>>)
  ELSE IF Head(cs) = "["
  THEN LET s == TrimStart(Tail(cs)) IN
       IF s # <<>> /\ Head(s) = "]" THEN Parsed(JsArray(<<>>), Tail(s))
       ELSE ParseItems(s, <<>>)
  ELSE IF Head(cs) = "\"" THEN ParseString(Tail(cs), "")
  ELSE IF IsDigit(Head(cs)) THEN ParseNumber(cs)
  ELSE IF StartsWith(cs, <<"n", "u", "l", "l">>) THEN Parsed(JsNull, Drop(cs, 4))
  ELSE IF StartsWith(cs, <<"t", "r", "u", "e">>) THEN Parsed(JsBoolean(TRUE), Drop(cs, 4))
  ELSE IF StartsWith(cs, <<"f", "a", "l", "s", "e">>) THEN Parsed(JsBoolean(FALSE), Drop(cs, 5))
  ELSE ParseFail

\* "name": value, then ',' and the next member or '}'.  A repeated name
\* keeps its last value.
ParseMembers(cs, props) ==
  IF cs = <<>> \/ Head(cs) # "\"" THEN ParseFail
  ELSE LET k == ParseString(Tail(cs), "") IN
    IF ~k.ok THEN ParseFail
    ELSE LET s == TrimStart(k.rest) IN
      IF s = <<>> \/ Head(s) # ":" THEN ParseFail
      ELSE LET m == ParseValue(Tail(s)) IN
        IF ~m.ok THEN ParseFail
        ELSE LET r == TrimStart(m.rest)
                 ps == (k.v.v :> m.v) @@ props
             IN IF r = <<>> THEN ParseFail
                ELSE IF Head(r) = "}" THEN Parsed(JsObject(ps), Tail(r))
                ELSE IF Head(r) = "," THEN ParseMembers(TrimStart(Tail(r)), ps)
                ELSE ParseFail

ParseItems(cs, items) ==
  LET m == ParseValue(cs) IN
  IF ~m.ok THEN ParseFail
  ELSE LET r == TrimStart(m.rest)
           is == Append(items, m.v)
       IN IF r = <<>> THEN ParseFail
          ELSE IF Head(r) = "]" THEN Parsed(JsArray(is), Tail(r))
          ELSE IF Head(r) = "," THEN ParseItems(Tail(r), is)
          ELSE ParseFail

\* JSON.parse(raw): the value of the whole text, or a SyntaxError.
JsonParse(raw) ==
  LET p == ParseValue(raw) IN
  IF p.ok /\ TrimStart(p.rest) = <<>>
  THEN [threw |-> FALSE, value |-> p.v]
  ELSE [threw |-> TRUE]

\* The responses of the server: res.status, res.statusText, the
\* content-type header (Null when the response has none) and the body.
Statuses == {200, 204, 400, 500}

StatusTexts == {"", "Bad Request"}

ContentTypes == {Null, "application/json", "application/json; charset=utf-8", "text/html"}

Bodies ==
  { <<>>,
    <<" ">>,
    <<"o", "o", "p", "s">>,
    <<"<", "h", "t", "m", "l", ">">>,
    <<"{", "b", "a", "d">>,
    <<"[", "1", ",", "]">>,
    <<"n", "u", "l", "l">>,
    <<"0">>,
    <<"4", "2">>,
    <<"[", "1", "]">>,
    <<"{", "\"", "o", "k", "\"", ":", "t", "r", "u", "e", "}">>,
    <<" ", "{", "\"", "a", "\"", ":", "1", "}">>,
    <<"{", "\"", "e", "r", "r", "o", "r", "\"", ":", "\"", "x", "\"", "}">>,
    <<"{", "\"", "e", "r", "r", "o", "r", "\"", ":", "n", "u", "l", "l", "}">> }

\* res.ok: the status is in the range 200-299.
ResponseOk(status) == status \in 200..299

Response(status, statusText, contentType, body) ==
  [status |-> status, statusText |-> statusText,
   contentType |-> contentType, body |-> body]

\* Line 37: res.headers.get('content-type') || ''
ContentTypeOf(r) == IF r.contentType = Null THEN "" ELSE r.contentType

\* contentType.includes('application/json'), on the content types above.
IncludesJson(contentType) ==
  contentType \in {"application/json", "application/json; charset=utf-8"}

\* Lines 42-46.
TriesJson(contentType, raw) ==
  \/ IncludesJson(contentType)
  \/ StartsWith(TrimStart(raw), <<"{">>)
  \/ StartsWith(TrimStart(raw), <<"[">>)

\* { error: { message, status } }
ErrorObject(message, status) ==
  JsObject("error" :> JsObject(("message" :> JsString(message))
                               @@ ("status" :> JsNumber(status))))

\* Lines 39-56: data after the body is looked at.
DataOfBody(raw, contentType, status) ==
  IF raw = <<>> THEN JsUndefined
  ELSE IF TriesJson(contentType, raw)
  THEN LET p == JsonParse(raw) IN
       IF p.threw THEN ErrorObject(TextOf(raw), status) ELSE p.value
  ELSE ErrorObject(TextOf(raw), status)

\* !data
Falsy(value) ==
  \/ value.t \in {"undefined", "null"}
  \/ value.t = "boolean" /\ ~value.v
  \/ value.t = "number" /\ value.v = 0
  \/ value.t = "string" /\ value.v = ""

\* typeof data === 'object'
TypeofObject(value) == value.t \in {"object", "array", "null"}

\* name in data, for a data that is an object or an array; no array has a
\* property called 'error'.
HasProperty(value, name) == value.t = "object" /\ name \in DOMAIN value.v

\* Mutant: a parsed object is kept whether it has an error property or not.
NeedsDefaultErrorAnyObject(ok, data) ==
  ~ok /\ (Falsy(data) \/ ~TypeofObject(data))

\* Line 59.
NeedsDefaultError(ok, data) ==
  ~ok /\ (Falsy(data) \/ ~TypeofObject(data) \/ ~HasProperty(data, "error"))

\* Line 62: res.statusText || 'Request failed'
DefaultMessage(r) == IF r.statusText # "" THEN r.statusText ELSE "Request failed"

\* Lines 36-66: data as request returns it.
DataOf(r) ==
  LET data == DataOfBody(r.body, ContentTypeOf(r), r.status) IN
  IF NeedsDefaultError(ResponseOk(r.status), data)
  THEN ErrorObject(DefaultMessage(r), r.status)
  ELSE data

\* The response before fetch has settled, and the promise that request
\* returns before it has.
NoResponse == [status |-> 0]

Pending == [state |-> "pending"]

Fulfilled(value) == [state |-> "fulfilled", value |-> value]

Rejected(reason) == [state |-> "rejected", reason |-> reason]

\* No call of request() is under way.
NoRequest ==
  /\ res = NoResponse
  /\ nodeEnv = Undefined
  /\ fetchPc = "idle"
  /\ settled = Pending
  /\ consoleErrors = <<>>

(***************************************************************************)
(* The state machine.                                                      *)
(***************************************************************************)

\* Mutant: the version is checked before the connection is opened.
ChecksVersionFirst == <<"checkEnv", "checkDatabaseVersion", "checkConnection", "applyMigration">>

Checks == <<"checkEnv", "checkConnection", "checkDatabaseVersion", "applyMigration">>

NotParsed == [parsed |-> FALSE]

NotComputed == [computed |-> FALSE]

Line(kind, msg) == [kind |-> kind, msg |-> msg]

Env(skip, dbUrl, ssl, reject, ca, caBase64, debug, redis, skipMigration) ==
  [SKIP_DB_CHECK |-> skip, DATABASE_URL |-> dbUrl, DATABASE_SSL |-> ssl,
   DATABASE_SSL_REJECT_UNAUTHORIZED |-> reject, DATABASE_SSL_CA |-> ca,
   DATABASE_SSL_CA_BASE64 |-> caBase64, DATABASE_SSL_DEBUG |-> debug,
   REDIS_URL |-> redis, SKIP_DB_MIGRATION |-> skipMigration]

\* Greatest number of query pairs of a DATABASE_URL in the runs of the pipeline.
RunnerParams == 1

InitProcess ==
  /\ pc = "start"
  /\ url = NotParsed
  /\ sslOptions = NotComputed
  /\ idx = 0
  /\ err = FALSE
  /\ exitCode = Running
  /\ uncaught = NoError
  /\ output = <<>>
  /\ trace = <<>>
  /\ failed = {}
  /\ connected = FALSE
  /\ dbVersion = NoVersionString
  /\ migrateCalls = 0

\* The environments of the runs of the pipeline.
Init ==
  /\ \E skip \in {Undefined, "", "1", "true"},
        dbUrl \in {NoUrlText, EmptyText} \cup MalformedTexts \cup WellFormedTexts(RunnerParams),
        ssl \in {Undefined, "true"},
        redis \in {Undefined, "redis://cache"},
        skipMigration \in {Undefined, "", "1"} :
       env = Env(skip, dbUrl, ssl, Undefined, Undefined, Undefined, Undefined, redis, skipMigration)
  /\ InitProcess
  /\ NoRequest

\* Mutant: the flag is compared with '1', as DATABASE_SSL is.
SkipRequestedOnlyOne(e) == e.SKIP_DB_CHECK = "1"

\* if (process.env.SKIP_DB_CHECK)
SkipRequested(e) == Truthy(e.SKIP_DB_CHECK)

\* Lines 11-14: the guard either exits with code 0 or lets the module body go on.
SkipGuard ==
  /\ pc = "start"
  /\ IF SkipRequested(env)
     THEN /\ output' = Append(output, Line("log", "Skipping database check."))
          /\ exitCode' = 0
          /\ pc' = "exited"
     ELSE /\ pc' = "parse"
          /\ UNCHANGED <<output, exitCode>>
  /\ UNCHANGED fetchVars
  /\ UNCHANGED <<env, url, sslOptions, idx, err, uncaught, trace, failed,
                 connected, dbVersion, migrateCalls>>

\* Line 16: a TypeError thrown here is caught by nothing; Node prints it on
\* standard error and exits with code 1.
ParseUrl ==
  /\ pc = "parse"
  /\ IF ParseThrows(env.DATABASE_URL)
     THEN /\ uncaught' = "TypeError: Invalid URL"
          /\ exitCode' = 1
          /\ pc' = "exited"
          /\ UNCHANGED url
     ELSE /\ url' = ParseURL(env.DATABASE_URL)
          /\ pc' = "build"
          /\ UNCHANGED <<uncaught, exitCode>>
  /\ UNCHANGED fetchVars
  /\ UNCHANGED <<env, sslOptions, idx, err, output, trace, failed,
                 connected, dbVersion, migrateCalls>>

\* Lines 72-79: the TLS options, the adapter and the client; then the runner
\* starts at the first check.
BuildClient ==
  /\ pc = "build"
  /\ sslOptions' = getSslOptions(url, env)
  /\ output' = output \o SslDebugLines(url, env)
  /\ pc' = "loop"
  /\ idx' = 1
  /\ UNCHANGED fetchVars
  /\ UNCHANGED <<env, url, err, exitCode, uncaught, trace, failed,
                 connected, dbVersion, migrateCalls>>

(***************************************************************************)
(* The runner, lines 132-146.  One action is one iteration of the loop:    *)
(* the awaited check, the catch block and the finally block.               *)
(***************************************************************************)

\* Mutant: the finally block never exits.
ExitOnErrorNever(e) == FALSE

\* finally { if (err) process.exit(1) }
ExitOnError(e) == e

\* The iteration that runs check fn, which printed `lines` and then threw
\* `thrown` (NoError when it returned).
Iteration(fn, lines, thrown) ==
  LET caught == thrown # NoError
      err1 == err \/ caught
  IN /\ trace' = Append(trace, fn)
     /\ output' = output \o lines \o (IF caught THEN <<Line("error", thrown)>> ELSE <<>>)
     /\ failed' = IF caught THEN failed \cup {fn} ELSE failed
     /\ err' = err1
     /\ IF ExitOnError(err1)
        THEN /\ exitCode' = 1
             /\ pc' = "exited"
             /\ UNCHANGED idx
        ELSE /\ idx' = idx + 1
             /\ UNCHANGED <<exitCode, pc>>

AtCheck(fn) == pc = "loop" /\ idx \in 1..Len(Checks) /\ Checks[idx] = fn

\* Mutant: a missing REDIS_URL is an error, like a missing DATABASE_URL.
CheckEnvRedisRequired ==
  /\ AtCheck("checkEnv")
  /\ IF ~UrlTextTruthy(env.DATABASE_URL)
     THEN Iteration("checkEnv", <<>>, "DATABASE_URL is not defined.")
     ELSE IF ~Truthy(env.REDIS_URL)
     THEN Iteration("checkEnv", <<Line("success", "DATABASE_URL is defined.")>>,
                    "REDIS_URL is not defined.")
     ELSE Iteration("checkEnv",
                    <<Line("success", "DATABASE_URL is defined."),
                      Line("success", "REDIS_URL is defined.")>>,
                    NoError)
  /\ UNCHANGED fetchVars
  /\ UNCHANGED <<env, url, sslOptions, uncaught, connected, dbVersion, migrateCalls>>

\* Lines 89-99.
CheckEnv ==
  /\ AtCheck("checkEnv")
  /\ IF ~UrlTextTruthy(env.DATABASE_URL)
     THEN Iteration("checkEnv", <<>>, "DATABASE_URL is not defined.")
     ELSE Iteration("checkEnv",
                    <<Line("success", "DATABASE_URL is defined.")>>
                      \o (IF Truthy(env.REDIS_URL)
                          THEN <<Line("success", "REDIS_URL is defined.")>>
                          ELSE <<>>),
                    NoError)
  /\ UNCHANGED fetchVars
  /\ UNCHANGED <<env, url, sslOptions, uncaught, connected, dbVersion, migrateCalls>>

\* The errors prisma.$connect() may reject with.
ConnectErrors == {"ECONNREFUSED", "self-signed certificate"}

\* Lines 101-109: the server decides whether the connection opens.
CheckConnection ==
  /\ AtCheck("checkConnection")
  /\ \/ /\ connected' = TRUE
        /\ Iteration("checkConnection",
                     <<Line("success", "Database connection successful.")>>, NoError)
     \/ \E e \in ConnectErrors :
          /\ UNCHANGED connected
          /\ Iteration("checkConnection", <<>>,
                       "Unable to connect to the database: " \o e)
  /\ UNCHANGED fetchVars
  /\ UNCHANGED <<env, url, sslOptions, uncaught, dbVersion, migrateCalls>>

\* Mutant: the comparison is with <=, so the minimum version itself is refused.
VersionTooOldInclusive(version) == SemverLt(version, MIN_VERSION) \/ version = MIN_VERSION

\* semver.lt(version, MIN_VERSION), for a version that is not null.
VersionTooOld(version) == SemverLt(version, MIN_VERSION)

\* Mutant: a null version is let through (if (version && semver.lt(...))).
VersionCheckThrownNullPasses(version) ==
  IF version = NullVersion THEN NoError
  ELSE IF VersionTooOld(version)
  THEN "Database version is not compatible. Please upgrade to 9.4.0 or greater."
  ELSE NoError

\* Lines 115-119: what the comparison throws.  semver.lt builds a SemVer from
\* each argument, and the constructor throws a TypeError for null.
VersionCheckThrown(version) ==
  IF version = NullVersion THEN "Invalid Version: null"
  ELSE IF VersionTooOld(version)
  THEN "Database version is not compatible. Please upgrade to 9.4.0 or greater."
  ELSE NoError

\* Lines 111-122: the query rejects, or returns the server's version string.
CheckDatabaseVersion ==
  /\ AtCheck("checkDatabaseVersion")
  /\ \/ /\ UNCHANGED dbVersion
        /\ Iteration("checkDatabaseVersion", <<>>, "query failed")
     \/ \E s \in VersionStrings :
          /\ dbVersion' = s
          /\ LET thrown == VersionCheckThrown(SemverCoerce(s)) IN
             IF thrown # NoError
             THEN Iteration("checkDatabaseVersion", <<>>, thrown)
             ELSE Iteration("checkDatabaseVersion",
                            <<Line("success", "Database version check successful.")>>, NoError)
  /\ UNCHANGED fetchVars
  /\ UNCHANGED <<env, url, sslOptions, uncaught, connected, migrateCalls>>

\* Mutant: the override is ignored and the command always runs.
MigrationSkippedNever(e) == FALSE

\* !process.env.SKIP_DB_MIGRATION, negated
MigrationSkipped(e) == Truthy(e.SKIP_DB_MIGRATION)

\* Lines 124-130: execSync throws when the command exits with a status other
\* than 0.
ApplyMigration ==
  /\ AtCheck("applyMigration")
  /\ IF ~MigrationSkipped(env)
     THEN /\ migrateCalls' = migrateCalls + 1
          /\ \/ Iteration("applyMigration",
                          <<Line("log", "prisma migrate deploy: ok"),
                            Line("success", "Database is up to date.")>>, NoError)
             \/ Iteration("applyMigration", <<>>, "Command failed: prisma migrate deploy")
     ELSE /\ UNCHANGED migrateCalls
          /\ Iteration("applyMigration", <<>>, NoError)
  /\ UNCHANGED fetchVars
  /\ UNCHANGED <<env, url, sslOptions, uncaught, connected, dbVersion>>

\* The loop is over and nothing is left to run: the process exits with code 0.
Finish ==
  /\ pc = "loop"
  /\ idx > Len(Checks)
  /\ exitCode' = 0
  /\ pc' = "exited"
  /\ UNCHANGED fetchVars
  /\ UNCHANGED <<env, url, sslOptions, idx, err, uncaught, output, trace, failed,
                 connected, dbVersion, migrateCalls>>

Next ==
  \/ SkipGuard
  \/ ParseUrl
  \/ BuildClient
  \/ CheckEnv
  \/ CheckConnection
  \/ CheckDatabaseVersion
  \/ ApplyMigration
  \/ Finish

Spec == Init /\ [][Next]_vars

\* Node runs every continuation that is ready, so a run that can take a step
\* takes one.
FairSpec == Init /\ [][Next]_vars /\ WF_vars(Next)

(***************************************************************************)
(* The runs that apply getSslOptions: the environments range over the      *)
(* values its tests tell apart, the URLs over every query of at most       *)
(* MaxParams pairs, and the run is followed up to the call on line 72.     *)
(***************************************************************************)

InitSsl ==
  /\ \E skip \in {Undefined, "1"},
        dbUrl \in MalformedTexts \cup WellFormedTexts(MaxParams),
        ssl \in {Undefined, "1", "true", "0"},
        reject \in {Undefined, "", "0", "false", "1"},
        ca \in {Undefined, "PEM"},
        debug \in {Undefined, "1"} :
       env = Env(skip, dbUrl, ssl, reject, ca, Undefined, debug, Undefined, Undefined)
  /\ InitProcess
  /\ NoRequest

\* The runs that choose the CA: every pair of a raw PEM override and a base64
\* override, with TLS switched on or off by DATABASE_SSL or by the URL.
InitCa ==
  /\ \E skip \in {Undefined, "1"},
        dbUrl \in MalformedTexts \cup WellFormedTexts(RunnerParams),
        ssl \in {Undefined, "true"},
        ca \in {Undefined, "", "PEM"},
        caBase64 \in {Undefined, ""} \cup B64Texts,
        debug \in {Undefined, "1"} :
       env = Env(skip, dbUrl, ssl, Undefined, ca, caBase64, debug, Undefined, Undefined)
  /\ InitProcess
  /\ NoRequest

NextSsl ==
  \/ SkipGuard
  \/ ParseUrl
  \/ BuildClient

SslSpec == InitSsl /\ [][NextSsl]_vars

(***************************************************************************)
(* One call of request(), lines 18-80: fetch settles; if it fulfils, the   *)
(* callback of then awaits the text of the body and, once it has it, runs  *)
(* to its return.  A rejection of fetch or of res.text() is handled by     *)
(* nothing and rejects the promise that request returned.                  *)
(***************************************************************************)

NodeEnvs == {Undefined, "development", "production"}

InitFetch ==
  /\ env = Env(Undefined, NoUrlText, Undefined, Undefined, Undefined,
               Undefined, Undefined, Undefined, Undefined)
  /\ InitProcess
  /\ res = NoResponse
  /\ nodeEnv \in NodeEnvs
  /\ fetchPc = "fetch"
  /\ settled = Pending
  /\ consoleErrors = <<>>

\* Lines 24-33: fetch fulfils with a response.
FetchFulfils ==
  /\ fetchPc = "fetch"
  /\ \E status \in Statuses, statusText \in StatusTexts,
        contentType \in ContentTypes, body \in Bodies :
       res' = Response(status, statusText, contentType, body)
  /\ fetchPc' = "text"
  /\ UNCHANGED <<nodeEnv, settled, consoleErrors>>
  /\ UNCHANGED dbVars

\* Lines 24-33: fetch rejects (the network failed); then passes it on.
FetchRejects ==
  /\ fetchPc = "fetch"
  /\ settled' = Rejected("TypeError: fetch failed")
  /\ fetchPc' = "settled"
  /\ UNCHANGED <<res, nodeEnv, consoleErrors>>
  /\ UNCHANGED dbVars

\* Line 36: res.text() rejects (the connection broke while the body was
\* read); the callback throws.
TextRejects ==
  /\ fetchPc = "text"
  /\ settled' = Rejected("TypeError: terminated")
  /\ fetchPc' = "settled"
  /\ UNCHANGED <<res, nodeEnv, consoleErrors>>
  /\ UNCHANGED dbVars

\* Lines 36-78: res.text() resolves and the callback returns.
ThenCallback ==
  /\ fetchPc = "text"
  /\ LET ok == ResponseOk(res.status)
         data == DataOf(res)
     IN /\ consoleErrors' =
             IF nodeEnv # "production" /\ ~ok
             THEN Append(consoleErrors, [status |-> res.status, data |-> data])
             ELSE consoleErrors
        /\ settled' = Fulfilled([ok |-> ok, status |-> res.status, data |-> data])
  /\ fetchPc' = "settled"
  /\ UNCHANGED <<res, nodeEnv>>
  /\ UNCHANGED dbVars

NextFetch ==
  \/ FetchFulfils
  \/ FetchRejects
  \/ TextRejects
  \/ ThenCallback

FetchSpec == InitFetch /\ [][NextFetch]_vars

(***************************************************************************)
(* What the claims speak of.                                               *)
(***************************************************************************)

\* The place of a check in the fixed order Environment, Connectivity,
\* Version, Migration.
OrderOf(fn) ==
  CASE fn = "checkEnv" -> 1
    [] fn = "checkConnection" -> 2
    [] fn = "checkDatabaseVersion" -> 3
    [] fn = "applyMigration" -> 4

CheckNames == {"checkEnv", "checkConnection", "checkDatabaseVersion", "applyMigration"}

Started(fn) == \E i \in DOMAIN trace : trace[i] = fn

FailureLines == Cardinality({i \in DOMAIN output : output[i].kind = "error"})

Exited == pc = "exited"

AllPassed == Len(trace) = 4 /\ failed = {}

\* The first value a query gives a name, read off the text of DATABASE_URL.
ParamOfText(name) ==
  LET q == env.DATABASE_URL.query
      at == {i \in DOMAIN q : q[i][1] = name}
  IN IF at = {} THEN Null
     ELSE q[CHOOSE i \in at : \A j \in at : i <= j][2]

\* A flag value that switches TLS on.
FlagOn(v) == v \in {"1", "true"}

SslCalled == sslOptions # NotComputed

TlsOn == SslCalled /\ sslOptions # UndefinedOptions

(***************************************************************************)
(* The claims.                                                             *)
(***************************************************************************)

\* C1: once a check has failed, a failure line is printed, the process has
\* exited with code 1, and no check later in the fixed order was started.
C1_FailFast ==
  \A f \in failed :
    /\ Exited
    /\ exitCode = 1
    /\ FailureLines >= 1
    /\ output[Len(output)].kind = "error"
    /\ \A g \in CheckNames : OrderOf(g) > OrderOf(f) => ~Started(g)

C1_Witness == Exited /\ failed = {"checkConnection"} /\ exitCode = 1

\* C2: the checks start in the fixed order, each at most once, and a check
\* starts only after every check before it has completed successfully.
C2_StrictOrder ==
  /\ Len(trace) <= 4
  /\ \A i \in DOMAIN trace : OrderOf(trace[i]) = i
  /\ \A i \in DOMAIN trace : i < Len(trace) => trace[i] \notin failed

C2_Witness == Exited /\ trace = <<"checkEnv", "checkConnection", "checkDatabaseVersion", "applyMigration">>

\* C3 as stated: whenever SKIP_DB_CHECK is set, no check executes and the
\* exit code is 0.
C3_SkipWhenSet ==
  env.SKIP_DB_CHECK # Undefined => (trace = <<>> /\ (Exited => exitCode = 0))

\* C3, amended: whenever SKIP_DB_CHECK is set to a non-empty value, no check
\* executes, nothing is thrown and the exit code is 0, whatever the URL is.
C3_SkipWhenNonEmpty ==
  (env.SKIP_DB_CHECK # Undefined /\ env.SKIP_DB_CHECK # "") =>
    /\ trace = <<>>
    /\ uncaught = NoError
    /\ pc \in {"start", "exited"}
    /\ Exited => exitCode = 0

C3_Witness ==
  /\ env.SKIP_DB_CHECK = "true"
  /\ env.DATABASE_URL.defined /\ env.DATABASE_URL.scheme = ""
  /\ Exited /\ exitCode = 0

\* C4: with DATABASE_URL absent and SKIP_DB_CHECK unset, EnvironmentCheck
\* fails, the three later checks never execute and the exit code is 1.
C4_AbsentUrlFailsEnvCheck ==
  (~env.DATABASE_URL.defined /\ env.SKIP_DB_CHECK = Undefined /\ Exited) =>
    /\ "checkEnv" \in failed
    /\ ~Started("checkConnection")
    /\ ~Started("checkDatabaseVersion")
    /\ ~Started("applyMigration")
    /\ exitCode = 1

\* C5 as stated: a run in which all four checks succeeded exits with code 0
\* and prints no failure line, and the exit code is 1 exactly when some check
\* failed.
C5_ExitOneIffCheckFailed ==
  Exited =>
    /\ AllPassed => (exitCode = 0 /\ FailureLines = 0)
    /\ exitCode = 1 <=> failed # {}

\* C6: every run that exits with code 1 had its error caught by the runner
\* and printed exactly one failure line.
C6_EveryFailureCaught ==
  (Exited /\ exitCode = 1) => (uncaught = NoError /\ FailureLines = 1)

\* C7: when DATABASE_URL is a text that is not a URL, none of the four checks
\* is started; unless the run was skipped, it ends with the error new URL
\* threw and exit code 1, from the line before the client is built.
C7_InvalidUrlBeforeChecks ==
  (env.DATABASE_URL.defined /\ env.DATABASE_URL.scheme = "") =>
    /\ trace = <<>>
    /\ pc \in {"start", "parse", "exited"}
    /\ sslOptions = NotComputed
    /\ (Exited /\ env.SKIP_DB_CHECK \in {Undefined, ""}) =>
         (exitCode = 1 /\ uncaught # NoError /\ output = <<>>)

C7_Witness ==
  /\ env.DATABASE_URL \in MalformedTexts
  /\ env.SKIP_DB_CHECK = Undefined
  /\ Exited /\ exitCode = 1 /\ uncaught # NoError

\* C8 as stated: getSslOptions returns TLS options exactly when the enable
\* override is on, or the ssl parameter is on, or the sslmode parameter is
\* present and not "disable".
C8_EnabledIffPresent ==
  SslCalled =>
    (TlsOn <=> \/ FlagOn(env.DATABASE_SSL)
               \/ FlagOn(ParamOfText("ssl"))
               \/ (ParamOfText("sslmode") # Null /\ ParamOfText("sslmode") # "disable"))

\* C8, amended: getSslOptions returns TLS options exactly when the enable
\* override is "1" or "true", or the ssl parameter is "1" or "true", or the
\* sslmode parameter is present, not empty and not "disable"; otherwise it
\* returns undefined.
C8_EnabledIff ==
  SslCalled =>
    (TlsOn <=> \/ FlagOn(env.DATABASE_SSL)
               \/ FlagOn(ParamOfText("ssl"))
               \/ /\ ParamOfText("sslmode") # Null
                  /\ ParamOfText("sslmode") # ""
                  /\ ParamOfText("sslmode") # "disable")

C8_Witness ==
  /\ TlsOn
  /\ env.DATABASE_SSL = Undefined
  /\ ParamOfText("ssl") = "true"
  /\ ParamOfText("sslmode") = "disable"

\* C9: with TLS on and DATABASE_SSL_REJECT_UNAUTHORIZED unset,
\* rejectUnauthorized is false exactly when sslmode is "require" or "prefer".
C9_VerifyByMode ==
  (TlsOn /\ env.DATABASE_SSL_REJECT_UNAUTHORIZED = Undefined) =>
    (sslOptions.rejectUnauthorized = FALSE <=> ParamOfText("sslmode") \in {"require", "prefer"})

C9_Witness ==
  /\ TlsOn
  /\ env.DATABASE_SSL_REJECT_UNAUTHORIZED = Undefined
  /\ ParamOfText("sslmode") = "prefer"
  /\ sslOptions.rejectUnauthorized = FALSE

\* C10: with TLS on and DATABASE_SSL_REJECT_UNAUTHORIZED set, the override
\* alone decides: "0" and "false" give false, every other value, the empty
\* string included, gives true, whatever sslmode is.
C10_OverrideWins ==
  (TlsOn /\ env.DATABASE_SSL_REJECT_UNAUTHORIZED # Undefined) =>
    (sslOptions.rejectUnauthorized = (env.DATABASE_SSL_REJECT_UNAUTHORIZED \notin {"0", "false"}))

C10_Witness ==
  /\ TlsOn
  /\ env.DATABASE_SSL_REJECT_UNAUTHORIZED = ""
  /\ ParamOfText("sslmode") = "require"
  /\ sslOptions.rejectUnauthorized = TRUE

\* C11 as stated: whenever getSslOptions returns rejectUnauthorized false,
\* sslmode is "require" or "prefer".
C11_LaxOnlyInLaxModes ==
  (TlsOn /\ sslOptions.rejectUnauthorized = FALSE) =>
    ParamOfText("sslmode") \in {"require", "prefer"}

\* C11, amended: whenever getSslOptions returns rejectUnauthorized false,
\* either sslmode is "require" or "prefer", or the reject-unauthorized
\* override is "0" or "false" (which switches verification off under every
\* sslmode, verify-ca and verify-full included).
C11_LaxOnlyByModeOrOverride ==
  (TlsOn /\ sslOptions.rejectUnauthorized = FALSE) =>
    \/ ParamOfText("sslmode") \in {"require", "prefer"}
    \/ env.DATABASE_SSL_REJECT_UNAUTHORIZED \in {"0", "false"}

C11_Witness ==
  /\ TlsOn
  /\ sslOptions.rejectUnauthorized = FALSE
  /\ ParamOfText("sslmode") = "verify-full"
  /\ env.DATABASE_SSL_REJECT_UNAUTHORIZED = "false"

CaSpec == InitCa /\ [][NextSsl]_vars

\* A base64 text with a character that is neither of the base64 alphabet,
\* nor whitespace, nor padding.
MalformedB64(s) ==
  \E i \in DOMAIN B64Chars(s) : B64Chars(s)[i] \notin {"U", "E", "V", "N", " ", "="}

RawCaGiven == env.DATABASE_SSL_CA \notin {Undefined, ""}

Base64CaGiven == env.DATABASE_SSL_CA_BASE64 \notin {Undefined, ""}

HasCa == "ca" \in DOMAIN sslOptions

\* The text a well-formed base64 value of the model stands for.
ExpectedDecoded(s) ==
  CASE s = "UEVN" -> "PEM" [] s = "UE VN" -> "PEM" [] s = "UEV=" -> "PE" [] s = " " -> ""

\* C12: with a malformed base64 CA override and no raw PEM override,
\* getSslOptions does not raise and the options it returns carry no CA.
C12_MalformedBase64NoCa ==
  (TlsOn /\ ~RawCaGiven /\ Base64CaGiven /\ MalformedB64(env.DATABASE_SSL_CA_BASE64)) =>
    (uncaught = NoError /\ ~HasCa)

\* C16: a non-empty raw PEM override is the CA and the base64 override is
\* then ignored; otherwise a non-empty base64 override is decoded, whitespace
\* removed, and its text is the CA; and when neither gives a non-empty text
\* the options have no ca field.
C16_CaSelection ==
  TlsOn =>
    /\ RawCaGiven => (HasCa /\ sslOptions.ca = env.DATABASE_SSL_CA)
    /\ (~RawCaGiven /\ Base64CaGiven /\ ~MalformedB64(env.DATABASE_SSL_CA_BASE64)) =>
         IF ExpectedDecoded(env.DATABASE_SSL_CA_BASE64) # ""
         THEN HasCa /\ sslOptions.ca = ExpectedDecoded(env.DATABASE_SSL_CA_BASE64)
         ELSE ~HasCa
    /\ (~RawCaGiven /\ ~Base64CaGiven) => ~HasCa
    /\ HasCa => sslOptions.ca # ""

C16_Witness ==
  /\ TlsOn
  /\ env.DATABASE_SSL_CA = "PEM"
  /\ env.DATABASE_SSL_CA_BASE64 = "UEV="
  /\ HasCa /\ sslOptions.ca = "PEM"

\* The version each version string of the model stands for; <<>> for a string
\* with no version in it.
ExpectedVersion(s) ==
  CASE s = <<"9", ".", "3", ".", "1">> -> <<9, 3, 1>>
    [] s = <<"9", ".", "4", ".", "0">> -> <<9, 4, 0>>
    [] s = <<"9", ".", "5", ".", "0">> -> <<9, 5, 0>>
    [] s = <<"1", "0", ".", "0", ".", "0">> -> <<10, 0, 0>>
    [] s = <<"P", "G", " ", "9", ".", "3", ".", "1", " ", "o", "n">> -> <<9, 3, 1>>
    [] s = <<"P", "G", " ", "1", "4", ".", "2">> -> <<14, 2, 0>>
    [] OTHER -> <<>>

\* The query has returned a string that a version can be coerced from.
VersionKnown == dbVersion # NoVersionString /\ ExpectedVersion(dbVersion) # <<>>

Below940(v) == v[1] < 9 \/ (v[1] = 9 /\ v[2] < 4)

\* C13: when the server's version string yields a version, the version check
\* fails exactly when that version is below 9.4.0, and in a run where it is
\* below 9.4.0 the migration command is never run.
C13_VersionGate ==
  VersionKnown =>
    /\ "checkDatabaseVersion" \in failed <=> Below940(ExpectedVersion(dbVersion))
    /\ Below940(ExpectedVersion(dbVersion)) =>
         (migrateCalls = 0 /\ ~Started("applyMigration") /\ Exited /\ exitCode = 1)

C13_Witness ==
  /\ dbVersion = <<"P", "G", " ", "9", ".", "3", ".", "1", " ", "o", "n">>
  /\ failed = {"checkDatabaseVersion"}
  /\ Exited /\ exitCode = 1

\* C15: when no version can be coerced from the server's version string, the
\* version check fails, the run exits with code 1 and the migration check is
\* not executed.
C15_NoVersionFails ==
  (dbVersion # NoVersionString /\ \A i \in DOMAIN dbVersion : ~IsDigit(dbVersion[i])) =>
    /\ failed = {"checkDatabaseVersion"}
    /\ Exited /\ exitCode = 1
    /\ FailureLines = 1
    /\ ~Started("applyMigration")
    /\ migrateCalls = 0

C15_Witness == dbVersion = <<"d", "e", "v">> /\ Exited /\ exitCode = 1

FirstThreePassed ==
  /\ Len(trace) >= 3
  /\ SubSeq(trace, 1, 3) = <<"checkEnv", "checkConnection", "checkDatabaseVersion">>
  /\ failed \cap {"checkEnv", "checkConnection", "checkDatabaseVersion"} = {}

\* C14 as stated: the migration command runs at most once, and only when
\* SKIP_DB_MIGRATION is unset and the three earlier checks have succeeded;
\* when SKIP_DB_MIGRATION is set the command never runs and the check
\* succeeds, so the run exits with code 0; when the command fails the check
\* fails and the exit code is 1.
C14_MigrationUnlessSet ==
  /\ migrateCalls <= 1
  /\ migrateCalls = 1 => (env.SKIP_DB_MIGRATION = Undefined /\ FirstThreePassed)
  /\ env.SKIP_DB_MIGRATION # Undefined =>
       /\ migrateCalls = 0
       /\ "applyMigration" \notin failed
       /\ (Exited /\ Started("applyMigration")) => (exitCode = 0 /\ AllPassed)
  /\ "applyMigration" \in failed =>
       (migrateCalls = 1 /\ Exited /\ exitCode = 1 /\ output[Len(output)].kind = "error")

\* C14, amended: as stated, with "unset" read as unset or empty and "set" as
\* set to a non-empty value.
C14_MigrationUnlessNonEmpty ==
  /\ migrateCalls <= 1
  /\ migrateCalls = 1 => (env.SKIP_DB_MIGRATION \in {Undefined, ""} /\ FirstThreePassed)
  /\ env.SKIP_DB_MIGRATION \notin {Undefined, ""} =>
       /\ migrateCalls = 0
       /\ "applyMigration" \notin failed
       /\ (Exited /\ Started("applyMigration")) => (exitCode = 0 /\ AllPassed)
  /\ "applyMigration" \in failed =>
       (migrateCalls = 1 /\ Exited /\ exitCode = 1 /\ output[Len(output)].kind = "error")

C14_Witness ==
  /\ env.SKIP_DB_MIGRATION = "1"
  /\ dbVersion = <<"1", "0", ".", "0", ".", "0">>
  /\ Exited /\ AllPassed /\ exitCode = 0 /\ migrateCalls = 0

\* C17: the options getSslOptions returned are the options it returns for the
\* same URL and environment with any other value of DATABASE_SSL_DEBUG, and
\* the call raised nothing: the run went on to the runner.
C17_DebugOnlyObserves ==
  SslCalled =>
    /\ \A d \in {Undefined, "", "1", "true"} :
         sslOptions = getSslOptions(url, [env EXCEPT !.DATABASE_SSL_DEBUG = d])
    /\ uncaught = NoError
    /\ pc = "loop"

C17_Witness ==
  /\ TlsOn
  /\ HasCa
  /\ env.DATABASE_SSL_DEBUG = "1"
  /\ \E i \in DOMAIN output : output[i] = Line("log", "DB SSL debug:")

RedisLine == Line("success", "REDIS_URL is defined.")

RedisLinesIn(out) == Cardinality({i \in DOMAIN out : out[i] = RedisLine})

\* C18: the step that runs checkEnv leaves the runner at the second check with
\* nothing failed and no exit code whether REDIS_URL is set or not; it prints
\* the DATABASE_URL line, followed by the REDIS_URL line exactly when
\* REDIS_URL is non-empty; and no other step prints that line.  So two runs
\* that differ in REDIS_URL alone and get the same answers from the server
\* run the same checks and exit with the same code.
C18_RedisOnlyAddsLine ==
  [][IF trace' = Append(trace, "checkEnv")
     THEN /\ pc' = "loop" /\ idx' = 2 /\ err' = FALSE
          /\ exitCode' = Running /\ failed' = {} /\ uncaught' = NoError
          /\ output' = output
                       \o <<Line("success", "DATABASE_URL is defined.")>>
                       \o (IF env.REDIS_URL \notin {Undefined, ""}
                           THEN <<RedisLine>> ELSE <<>>)
     ELSE RedisLinesIn(output') = RedisLinesIn(output)]_vars

C18_Witness ==
  /\ env.REDIS_URL = "redis://cache"
  /\ RedisLinesIn(output) = 1
  /\ Exited /\ AllPassed /\ exitCode = 0

\* C19: whenever checkEnv has run, DATABASE_URL is a non-empty text that the
\* URL constructor accepts, and checkEnv has not failed; a run that exits
\* with code 1 either failed at checkConnection or a later check, or was
\* aborted by an uncaught error before any check ran.
C19_CheckEnvNeverFails ==
  /\ Started("checkEnv") =>
       /\ UrlTextTruthy(env.DATABASE_URL)
       /\ ~ParseThrows(env.DATABASE_URL)
       /\ url = ParseURL(env.DATABASE_URL)
       /\ "checkEnv" \notin failed
       /\ \A i \in DOMAIN output :
            output[i] # Line("error", "DATABASE_URL is not defined.")
  /\ exitCode = 1 =>
       \/ /\ uncaught = NoError
          /\ failed # {}
          /\ failed \subseteq {"checkConnection", "checkDatabaseVersion",
                               "applyMigration"}
       \/ /\ uncaught # NoError
          /\ trace = <<>>
          /\ failed = {}

C19_Witness ==
  /\ Exited /\ exitCode = 1
  /\ Started("checkEnv")
  /\ failed = {"checkDatabaseVersion"}

\* fetch fulfilled and the promise of request has settled.
SettledAfterResponse == fetchPc = "settled" /\ res # NoResponse

IsErrorData(data) == data.t = "object" /\ "error" \in DOMAIN data.v

\* What the body itself gives as data, before the response's status is
\* looked at.
FromBody == DataOfBody(res.body, ContentTypeOf(res), res.status)

FromStatusText ==
  ErrorObject(IF res.statusText = "" THEN "Request failed" ELSE res.statusText,
              res.status)

\* The result has the response's ok and status, and the data of a response
\* that is not OK is an object with an error property: the one the body
\* gave, or else the one made from the status text.
ResultAsStated ==
  LET value == settled.value
      ok == res.status >= 200 /\ res.status <= 299
  IN /\ value.ok = ok
     /\ value.status = res.status
     /\ ~ok => /\ IsErrorData(value.data)
               /\ value.data = IF IsErrorData(FromBody) THEN FromBody
                               ELSE FromStatusText

\* C20 as stated: for every response that fetch resolves with, request
\* resolves, its ok and status are the response's, and the data of a
\* response that is not OK is an object with an error property, made from
\* the status text (or 'Request failed') when the body gave none.
C20_AlwaysResolves ==
  SettledAfterResponse =>
    /\ settled.state = "fulfilled"
    /\ ResultAsStated

\* C20: for every response that fetch resolves with, request rejects only
\* when the text of the body cannot be read; otherwise it resolves whatever
\* the body is, its ok and status are the response's, and the data of a
\* response that is not OK is an object with an error property, made from
\* the status text (or 'Request failed') when the body gave none.
C20_ResolvesOnceBodyRead ==
  SettledAfterResponse =>
    IF settled.state = "rejected"
    THEN settled.reason = "TypeError: terminated"
    ELSE settled.state = "fulfilled" /\ ResultAsStated

C20_Witness ==
  /\ SettledAfterResponse
  /\ settled.state = "fulfilled"
  /\ res.status = 500 /\ res.statusText = ""
  /\ res.body = <<"{", "\"", "o", "k", "\"", ":", "t", "r", "u", "e", "}">>
  /\ settled.value.data = ErrorObject("Request failed", 500)

====
